---------------------------- MODULE Spec2Model ----------------------------
(***************************************************************************)
(* Model of the MET predictor pipeline:                                    *)
(*   - the label mapper   (src/src/data_processing/wisdm_processor.py)     *)
(*   - the feature extractor                                               *)
(*                        (src/src/feature_extraction/feature_extractor.py)*)
(*   - the window segmenter (src/scripts/train_model.py,                   *)
(*                           src/scripts/comprehensive_report.py)          *)
(*                                                                         *)
(* Numbers.  A Python float is a record [nan, val]: either NaN or a        *)
(* number.  MET values are counted in tenths (1.5 is 15).  Accelerometer   *)
(* samples and the statistics computed from them are fixed-point numbers   *)
(* with Resolution units per 1.0; a square root is rounded down to the     *)
(* unit.                                                                   *)
(***************************************************************************)
EXTENDS Integers, Sequences, FiniteSets, TLC

VARIABLES
    \* --- label mapper call (get_met_class) ---
    met_arg,        \* the argument of get_met_class
    met_ret,        \* <<>> before the call, <<class>> after it
    met_args,       \* the arguments of a series of calls of get_met_class
    \* --- feature extractor call (extract_features) ---
    accel_data,     \* the window handed to extract_features: a sequence of <<x, y, z>>
    fx_ret,         \* <<>> before the call, <<outcome>> after it
    \* --- training pipeline (train_model.main) ---
    zip_file,       \* data/raw/wisdm-dataset.zip: "absent", "good" or "bad"
    raw_file,       \* the WISDM*.txt file under data/raw: <<>> or <<its rows>>
    dl_outcome,     \* history: "none", "ok" or "failed" download_wisdm_dataset
    log,            \* what was printed, in order
    source,         \* history: where df was read from: "none", "wisdm", "synthetic"
    pc,             \* position of the pipeline
    df,             \* the dataframe rows: [user, activity, acc]
    met_value,      \* column df['met_value'] (empty before labeling)
    met_class,      \* column df['met_class'] (empty before labeling)
    window_size,    \* the window_size argument of create_features_from_dataframe
    todo,           \* the (user, activity) groups the loops have still to visit
    features,       \* local list `features`
    labels,         \* local list `labels`
    windows,        \* history: the windows that were extracted, in order
    processed,      \* history: the groups whose loop body has completed
    error,          \* the exception that ended the pipeline, "" if none
    returned,       \* the values returned by the completed calls, in order
    \* --- report generator (comprehensive_report.main) ---
    all_features,   \* list `all_features` for one window size
    \* --- classifier wrapper (METPredictor) ---
    self,           \* the wrapper: [model, scaler, feature_names, met_classes]
    files,          \* the model directory: [met_model_pkl, scaler_pkl, model_metadata_json]
    last_call,      \* history: the last call on the wrapper, with the wrapper before it
    completed,      \* history: train or load_model has completed on this wrapper
    saved,          \* history: <<wrapper>> whose save_model wrote all the files as they are
    data_pool,      \* the training sets at hand
    \* --- stability layer ---
    vote_in,        \* the window-level predictions, in order
    vote_hist,      \* the predictions kept
    vote_out        \* the smoothed predictions emitted so far

metVars  == <<met_arg, met_ret, met_args>>
fxVars   == <<accel_data, fx_ret>>
dlVars   == <<zip_file, raw_file, dl_outcome, log, source>>
pipeVars == <<pc, df, met_value, met_class, window_size, todo, features, labels,
              windows, processed, error, returned, all_features, dlVars>>

wrapVars == <<self, files, last_call, completed, saved, data_pool>>
voteVars == <<vote_in, vote_hist, vote_out>>
libVars  == <<wrapVars, voteVars>>

vars == <<metVars, fxVars, pipeVars, libVars>>

-----------------------------------------------------------------------------
(* Bounds of the model *)

\* MET values range over -MaxMetTenths..MaxMetTenths tenths
MaxMetTenths == 100
\* fixed-point units per 1.0 of acceleration
Resolution == 10
\* longest window handed to extract_features on its own
MaxWin == 3
\* most rows of a dataframe of the pipeline
MaxRows == 3
\* largest window_size of the pipeline
MaxWindow == 3
\* longest single group, and largest window_size, of the single-group runs
MaxGroupLen == 9
MaxGroupWindow == 6
\* most calls of create_features_from_dataframe on one dataframe
MaxCalls == 2
\* pairs of MET values range over -MaxMonoTenths..MaxMonoTenths tenths
MaxMonoTenths == 70
\* users, and rows per user and activity, of the synthetic dataset
\* (10 and 100 in create_synthetic_data)
SynthUsers == 2
SynthSessions == 2
\* probabilities are counted in ProbUnits-ths (the share of the trees' votes)
ProbUnits == 2
\* feature values range over 0..MaxFeature
MaxFeature == 1
\* rows of a class that is well represented in a training set
RowsPerClass == 8
\* most window-level predictions fed to the stability layer
MaxPreds == 5

-----------------------------------------------------------------------------
(* Program constants *)

\* the length of the feature vector of extract_features
FeatureCount == 16
\* the number of consecutive predictions the majority vote is taken over
VoteWindow == 3

-----------------------------------------------------------------------------
(* Python floats *)

NaN == [nan |-> TRUE, val |-> 0]
Num(v) == [nan |-> FALSE, val |-> v]

\* a < b on floats: every comparison with NaN is False
Lt(a, b) == ~a.nan /\ ~b.nan /\ a.val < b.val

Max(a, b) == IF a >= b THEN a ELSE b
Min(a, b) == IF a <= b THEN a ELSE b

RECURSIVE SumSeq(_)
SumSeq(s) == IF s = <<>> THEN 0 ELSE Head(s) + SumSeq(Tail(s))

RECURSIVE ISqrtFrom(_, _)
ISqrtFrom(v, r) == IF (r + 1) * (r + 1) > v THEN r ELSE ISqrtFrom(v, r + 1)
\* floor of the square root of v >= 0
ISqrt(v) == ISqrtFrom(v, 0)

-----------------------------------------------------------------------------
(* Label mapper: WISDMDataProcessor *)

KnownActivities == {"Walking", "Jogging", "Running", "Upstairs", "Downstairs",
                    "Sitting", "Standing", "SlowWalk"}

\* self.activity_met_mapping, MET in tenths
activity_met_mapping ==
    [a \in KnownActivities |->
        CASE a = "Walking"    -> 30
          [] a = "Jogging"    -> 70
          [] a = "Running"    -> 80
          [] a = "Upstairs"   -> 40
          [] a = "Downstairs" -> 35
          [] a = "Sitting"    -> 10
          [] a = "Standing"   -> 12
          [] a = "SlowWalk"   -> 25]

\* pandas Series.map(dict): a value that is no key of the dict maps to NaN
map_activity(a) ==
    IF a \in DOMAIN activity_met_mapping THEN Num(activity_met_mapping[a]) ELSE NaN

\* a plausible slip: the breakpoints compared with <= instead of <
get_met_class_inclusive_high(v) ==
    IF ~v.nan /\ v.val <= 15 THEN 0
    ELSE IF ~v.nan /\ v.val <= 30 THEN 1
    ELSE IF ~v.nan /\ v.val <= 60 THEN 2
    ELSE 3

\* the two lowest classes returned the other way round
get_met_class_swapped_low(v) ==
    IF Lt(v, Num(15)) THEN 1
    ELSE IF Lt(v, Num(30)) THEN 0
    ELSE IF Lt(v, Num(60)) THEN 2
    ELSE 3

\* WISDMDataProcessor.get_met_class
get_met_class(v) ==
    IF Lt(v, Num(15)) THEN 0
    ELSE IF Lt(v, Num(30)) THEN 1
    ELSE IF Lt(v, Num(60)) THEN 2
    ELSE 3

-----------------------------------------------------------------------------
(* numpy on one-dimensional arrays (sequences of fixed-point numbers) *)

SeqMin(a) == CHOOSE v \in {a[i] : i \in 1..Len(a)} : \A j \in 1..Len(a) : v <= a[j]
SeqMax(a) == CHOOSE v \in {a[i] : i \in 1..Len(a)} : \A j \in 1..Len(a) : v >= a[j]

RECURSIVE Insert(_, _)
Insert(v, s) ==
    IF s = <<>> THEN <<v>>
    ELSE IF v <= Head(s) THEN <<v>> \o s
    ELSE <<Head(s)>> \o Insert(v, Tail(s))

RECURSIVE SortAsc(_)
SortAsc(s) == IF s = <<>> THEN <<>> ELSE Insert(Head(s), SortAsc(Tail(s)))

\* np.mean: NaN (and a warning) on an empty array
np_mean(a) == IF a = <<>> THEN NaN ELSE Num(SumSeq(a) \div Len(a))

\* the pandas default (ddof=1): the sample deviation, undefined for one value
np_std_ddof1(a) ==
    IF Len(a) <= 1 THEN NaN
    ELSE LET m == np_mean(a).val
         IN  Num(ISqrt(SumSeq([i \in 1..Len(a) |-> (a[i] - m) * (a[i] - m)])
                         \div (Len(a) - 1)))

\* np.std (ddof=0): sqrt(mean(|a - mean(a)|^2)); NaN (and a warning) on an empty array
np_std(a) ==
    IF a = <<>> THEN NaN
    ELSE LET m == np_mean(a).val
         IN  Num(ISqrt(SumSeq([i \in 1..Len(a) |-> (a[i] - m) * (a[i] - m)])
                         \div Len(a)))

\* a reduction that returns NaN on an empty array, as np.mean does
np_min_never_raises(a) == FALSE

\* np.min / np.max raise ValueError on a zero-size array (no identity)
np_min_raises(a) == a = <<>>

np_min(a) == IF a = <<>> THEN NaN ELSE Num(SeqMin(a))
np_max(a) == IF a = <<>> THEN NaN ELSE Num(SeqMax(a))

\* np.sqrt(np.mean(a**2))
rms(a) ==
    IF a = <<>> THEN NaN
    ELSE Num(ISqrt(SumSeq([i \in 1..Len(a) |-> a[i] * a[i]]) \div Len(a)))

\* np.sign
np_sign(v) == IF v > 0 THEN 1 ELSE IF v < 0 THEN -1 ELSE 0

\* np.diff
np_diff(s) == [i \in 1..(Len(s) - 1) |-> s[i + 1] - s[i]]

\* np.sum(arr != 0)
count_nonzero(s) == Cardinality({i \in 1..Len(s) : s[i] # 0})

\* x - mean_x (an empty array stays empty whatever mean_x is)
centered(x) == [i \in 1..Len(x) |-> x[i] - np_mean(x).val]

\* np.sum(np.diff(np.sign(x - mean_x)) != 0)
zero_crossings(x) ==
    count_nonzero(np_diff([i \in 1..Len(x) |-> np_sign(centered(x)[i])]))

\* np.percentile(a, q), linear interpolation between the closest ranks
np_percentile(a, q) ==
    IF a = <<>> THEN NaN
    ELSE LET s   == SortAsc(a)
             pos == (Len(a) - 1) * q
             lo  == pos \div 100
             hi  == Min(lo + 1, Len(a) - 1)
         IN  Num(s[lo + 1] + ((s[hi + 1] - s[lo + 1]) * (pos % 100)) \div 100)

-----------------------------------------------------------------------------
(* Feature extractor: METFeatureExtractor *)

\* magnitude = np.sqrt(x**2 + y**2 + z**2)
magnitude_of(x, y, z) ==
    [i \in 1..Len(x) |-> ISqrt(x[i] * x[i] + y[i] * y[i] + z[i] * z[i])]

\* a plausible slip: max and min of the magnitude appended in the other order
feature_values_swapped(x, y, z, magnitude) ==
    << np_mean(x), np_mean(y), np_mean(z), np_mean(magnitude),
       np_std(x), np_std(y), np_std(z), np_std(magnitude),
       np_max(magnitude), np_min(magnitude),
       rms(x), rms(y), rms(z),
       Num(zero_crossings(x)),
       np_percentile(magnitude, 25), np_percentile(magnitude, 75) >>

\* the list `features` as extract_features builds it; zero_crossings is a count
feature_values(x, y, z, magnitude) ==
    << np_mean(x), np_mean(y), np_mean(z), np_mean(magnitude),
       np_std(x), np_std(y), np_std(z), np_std(magnitude),
       np_min(magnitude), np_max(magnitude),
       rms(x), rms(y), rms(z),
       Num(zero_crossings(x)),
       np_percentile(magnitude, 25), np_percentile(magnitude, 75) >>

Axis(ad, k) == [i \in 1..Len(ad) |-> ad[i][k]]

\* METFeatureExtractor.extract_features: the feature list, or the exception raised
extract_features(ad) ==
    LET x == Axis(ad, 1)
        y == Axis(ad, 2)
        z == Axis(ad, 3)
        magnitude == magnitude_of(x, y, z)
    IN  IF np_min_raises(magnitude)
        THEN [status |-> "ValueError", features |-> <<>>]
        ELSE [status |-> "ok", features |-> feature_values(x, y, z, magnitude)]

\* METFeatureExtractor.get_feature_names
get_feature_names ==
    << "mean_x", "mean_y", "mean_z", "mean_magnitude",
       "std_x", "std_y", "std_z", "std_magnitude",
       "min_magnitude", "max_magnitude",
       "rms_x", "rms_y", "rms_z",
       "zero_crossings_x",
       "magnitude_p25", "magnitude_p75" >>

-----------------------------------------------------------------------------
(* Python and pandas helpers of the segmenter *)

RECURSIVE Unique(_)
\* Series.unique(): the distinct values in order of first appearance
Unique(s) ==
    IF s = <<>> THEN <<>>
    ELSE LET front == Unique(SubSeq(s, 1, Len(s) - 1))
             last  == s[Len(s)]
         IN  IF \E i \in 1..Len(front) : front[i] = last
             THEN front
             ELSE Append(front, last)

\* range(0, stop, step) for step > 0
py_range(stop, step) ==
    [k \in 1..(IF stop <= 0 THEN 0 ELSE (stop - 1) \div step + 1) |-> (k - 1) * step]

\* a group shorter than the window treated as an error
range_raises_on_short(len, size, step) == step = 0 \/ len < size

\* range() raises ValueError when its step is zero
range_raises(len, size, step) == step = 0

\* seq.iloc[i:j], positions counted from 0, the end clamped to the length
iloc_slice(s, i, j) == SubSeq(s, i + 1, Min(j, Len(s)))

\* the positions of df, in order
Index(d) == [i \in 1..Len(d) |-> i]

\* user_data = df[df['user'] == user], as positions of df
user_data(d, user) == SelectSeq(Index(d), LAMBDA i : d[i].user = user)

\* the selection by activity left out
activity_data_any_activity(d, user, activity) == user_data(d, user)

\* activity_data = user_data[user_data['activity'] == activity], as positions of df
activity_data(d, user, activity) ==
    SelectSeq(user_data(d, user), LAMBDA i : d[i].activity = activity)

RECURSIVE Flatten(_)
Flatten(ss) == IF ss = <<>> THEN <<>> ELSE Head(ss) \o Flatten(Tail(ss))

\* the (user, activity) pairs in the order the two nested loops visit them
group_order(d) ==
    LET users == Unique([i \in 1..Len(d) |-> d[i].user])
        acts(u) == Unique([k \in 1..Len(user_data(d, u)) |-> d[user_data(d, u)[k]].activity])
    IN  Flatten([n \in 1..Len(users) |->
                    [m \in 1..Len(acts(users[n])) |-> <<users[n], acts(users[n])[m]>>]])

\* the lists of the previous call kept
initial_list_kept(old) == old

\* features = [] ; labels = []
initial_list(old) == <<>>

\* the stop of the range one short: range(0, len - window_size, step)
window_starts_stop_short(group, size) ==
    SelectSeq(py_range(Len(group) - size, size \div 2),
              LAMBDA i : Len(iloc_slice(group, i, i + size)) = size)

\* the range run to the end of the group and the length of the slice not
\* tested: range(0, len, step), the trailing shorter slices included
window_starts_with_partial(group, size) == py_range(Len(group), size \div 2)

\* the window starts of one group whose slice has the full length
window_starts(group, size) ==
    SelectSeq(py_range(Len(group) - size + 1, size \div 2),
              LAMBDA i : Len(iloc_slice(group, i, i + size)) = size)

\* the label read from the dataframe in the place of the window:
\* df['met_class'].iloc[0]
window_label_of_frame(mc, rows) == mc[1]

\* window['met_class'].iloc[0]: the class of the first row of the window
window_label(mc, rows) == mc[rows[1]]

\* accel_data of the window of `group` that starts at i
window_accel(d, group, i, size) ==
    LET rows == iloc_slice(group, i, i + size)
    IN  [k \in 1..Len(rows) |-> d[rows[k]].acc]

-----------------------------------------------------------------------------
(* Classifier wrapper (METPredictor) *)

\* Python's None, and a value that is not None
None == <<>>
Some(v) == <<v>>

MetClassIds == 0..3
ClassNames == << "Sedentary", "Light", "Moderate", "Vigorous" >>

\* METPredictor.__init__
METPredictor_init ==
    [model |-> None, scaler |-> None, feature_names |-> None,
     met_classes |-> [c \in MetClassIds |-> ClassNames[c + 1]]]

\* a feature vector of n values: the first is v, the others are 0
Vec(n, v) == [i \in 1..n |-> IF i = 1 THEN v ELSE 0]

\* the probability vectors over k classes
Dist(k) == {p \in [1..k -> 0..ProbUnits] : SumSeq(p) = ProbUnits}

\* np.unique(y): the classes that occur, ascending
RECURSIVE classes_from(_, _)
classes_from(counts, c) ==
    IF c \notin DOMAIN counts THEN <<>>
    ELSE (IF counts[c] > 0 THEN <<c>> ELSE <<>>) \o classes_from(counts, c + 1)

classes_of(counts) == classes_from(counts, 0)

n_samples(counts) == SumSeq([i \in 1..Cardinality(DOMAIN counts) |-> counts[i - 1]])

\* train_test_split(test_size=0.2, stratify=y) raises ValueError: no rows, a
\* class of one row, or a train or test part with fewer rows than classes
split_raises(counts) ==
    LET n       == n_samples(counts)
        n_test  == (n + 4) \div 5
        n_train == n - n_test
        k       == Len(classes_of(counts))
    IN  \/ n = 0
        \/ n_train = 0
        \/ \E c \in DOMAIN counts : counts[c] = 1
        \/ n_train < k
        \/ n_test < k

\* StandardScaler.fit: the per-feature mean and scale of the training rows
fit_scaler(d) ==
    [n_features_in |-> d.n_features,
     mean  |-> [i \in 1..d.n_features |-> d.mean],
     scale |-> [i \in 1..d.n_features |-> 1]]

\* RandomForestClassifier.fit: the classes seen and the fitted trees, which
\* vote d.left where the first scaled feature is <= 0 and d.right elsewhere
fit_forest(d) ==
    [n_features_in |-> d.n_features,
     classes |-> classes_of(d.counts),
     left  |-> d.left,
     right |-> d.right]

\* StandardScaler.transform
transform(sc, x) == [i \in 1..Len(x) |-> (x[i] - sc.mean[i]) \div sc.scale[i]]

\* RandomForestClassifier.predict_proba: one entry per class of classes_
predict_proba(m, xs) == IF xs[1] <= 0 THEN m.left ELSE m.right

\* np.argmax: the first index of the largest entry
argmax(p) ==
    CHOOSE i \in 1..Len(p) :
        /\ \A j \in 1..Len(p) : p[j] <= p[i]
        /\ \A j \in 1..(i - 1) : p[j] < p[i]

\* train with the scaler created and fitted before the split
train_scaler_first(w, d) ==
    IF split_raises(d.counts)
    THEN [outcome |-> "ValueError", self |-> [w EXCEPT !.scaler = Some(fit_scaler(d))]]
    ELSE [outcome |-> "ok",
          self |-> [w EXCEPT !.scaler = Some(fit_scaler(d)),
                             !.model = Some(fit_forest(d)),
                             !.feature_names = Some(d.feature_names)]]

\* METPredictor.train; the outcome and the wrapper after the call
train(w, d) ==
    IF split_raises(d.counts)
    THEN [outcome |-> "ValueError", self |-> w]
    ELSE [outcome |-> "ok",
          self |-> [w EXCEPT !.scaler = Some(fit_scaler(d)),
                             !.model = Some(fit_forest(d)),
                             !.feature_names = Some(d.feature_names)]]

\* what predict returns for the scaled vector xs
prediction_of(w, xs) ==
    LET m     == w.model[1]
        proba == predict_proba(m, xs)
        cls   == m.classes[argmax(proba)]
    IN  [predicted_class |-> cls,
         class_name |-> w.met_classes[cls],
         probabilities |-> proba,
         confidence |-> proba[argmax(proba)]]

\* predict with fit_transform in the place of transform: the scaler is
\* fitted again, on the vector itself
predict_refitting(w, x) ==
    IF w.model = None \/ w.scaler = None
    THEN [outcome |-> "ValueError: Model not trained or loaded", result |-> None,
          self |-> w]
    ELSE IF Len(x) # w.model[1].n_features_in
    THEN [outcome |-> "ValueError: n_features", result |-> None,
          self |-> [w EXCEPT !.scaler = Some([n_features_in |-> Len(x), mean |-> x,
                                              scale |-> [i \in 1..Len(x) |-> 1]])]]
    ELSE LET sc == [n_features_in |-> Len(x), mean |-> x,
                    scale |-> [i \in 1..Len(x) |-> 1]]
         IN  [outcome |-> "ok",
              result |-> Some(prediction_of(w, transform(sc, x))),
              self |-> [w EXCEPT !.scaler = Some(sc)]]

\* predict that takes the first n_features_in values of a longer vector
predict_truncating(w, x) ==
    IF w.model = None \/ w.scaler = None
    THEN [outcome |-> "ValueError: Model not trained or loaded", result |-> None,
          self |-> w]
    ELSE IF Len(x) < w.scaler[1].n_features_in \/ Len(x) < w.model[1].n_features_in
    THEN [outcome |-> "ValueError: n_features", result |-> None, self |-> w]
    ELSE [outcome |-> "ok",
          result |-> Some(prediction_of(w,
                        transform(w.scaler[1],
                                  SubSeq(x, 1, w.scaler[1].n_features_in)))),
          self |-> w]

\* METPredictor.predict; the outcome, the dictionary returned and the wrapper
\* after the call
predict(w, x) ==
    IF w.model = None \/ w.scaler = None
    THEN [outcome |-> "ValueError: Model not trained or loaded", result |-> None,
          self |-> w]
    ELSE IF Len(x) # w.scaler[1].n_features_in \/ Len(x) # w.model[1].n_features_in
    THEN [outcome |-> "ValueError: n_features", result |-> None, self |-> w]
    ELSE [outcome |-> "ok",
          result |-> Some(prediction_of(w, transform(w.scaler[1], x))),
          self |-> w]

\* str(k) and int(s) on the class ids
Digits == << "0", "1", "2", "3" >>
str(k) == Digits[k + 1]
int(t) == CHOOSE k \in MetClassIds : str(k) = t

\* json.dump of a dictionary with integer keys: the keys become strings
json_keys(dict) == [t \in {str(k) : k \in DOMAIN dict} |-> dict[int(t)]]

\* no file of the model directory
NoFiles == [met_model_pkl |-> None, scaler_pkl |-> None, model_metadata_json |-> None]

\* METPredictor.save_model: the two pickles are dumped, then the metadata is
\* built (len(None) raises TypeError) and written
save_model(w, fs) ==
    LET dumped == [fs EXCEPT !.met_model_pkl = Some(w.model),
                             !.scaler_pkl = Some(w.scaler)]
    IN  IF w.feature_names = None
        THEN [outcome |-> "TypeError", files |-> dumped]
        ELSE [outcome |-> "ok",
              files |-> [dumped EXCEPT !.model_metadata_json =
                            Some([feature_names |-> w.feature_names[1],
                                  met_classes |-> json_keys(w.met_classes),
                                  model_type |-> "RandomForestClassifier",
                                  n_features |-> Len(w.feature_names[1])])]]

\* load_model that reads the two pickles and leaves the metadata file unread
load_model_without_metadata(w, fs) ==
    IF fs.met_model_pkl = None
    THEN [outcome |-> "FileNotFoundError", self |-> w]
    ELSE LET w1 == [w EXCEPT !.model = fs.met_model_pkl[1]]
         IN  IF fs.scaler_pkl = None
             THEN [outcome |-> "FileNotFoundError", self |-> w1]
             ELSE [outcome |-> "ok", self |-> [w1 EXCEPT !.scaler = fs.scaler_pkl[1]]]

\* METPredictor.load_model: each attribute is assigned as its file is read,
\* and the first file that is missing ends the call
load_model(w, fs) ==
    IF fs.met_model_pkl = None
    THEN [outcome |-> "FileNotFoundError", self |-> w]
    ELSE LET w1 == [w EXCEPT !.model = fs.met_model_pkl[1]]
         IN  IF fs.scaler_pkl = None
             THEN [outcome |-> "FileNotFoundError", self |-> w1]
             ELSE LET w2 == [w1 EXCEPT !.scaler = fs.scaler_pkl[1]]
                  IN  IF fs.model_metadata_json = None
                      THEN [outcome |-> "FileNotFoundError", self |-> w2]
                      ELSE LET metadata == fs.model_metadata_json[1]
                           IN  [outcome |-> "ok",
                                self |-> [w2 EXCEPT
                                    !.feature_names = Some(metadata.feature_names),
                                    !.met_classes =
                                        [k \in {int(t) : t \in DOMAIN metadata.met_classes}
                                            |-> metadata.met_classes[str(k)]]]]

-----------------------------------------------------------------------------
(* Actions *)

\* one call of get_met_class
CallGetMetClass ==
    /\ met_ret = <<>>
    /\ met_ret' = <<get_met_class(met_arg)>>
    /\ UNCHANGED <<met_arg, met_args, fxVars, pipeVars, libVars>>

\* the next call of a series of calls of get_met_class
CallGetMetClassNext ==
    /\ Len(met_ret) < Len(met_args)
    /\ met_ret' = Append(met_ret, get_met_class(met_args[Len(met_ret) + 1]))
    /\ UNCHANGED <<met_arg, met_args, fxVars, pipeVars, libVars>>

\* one call of extract_features
CallExtractFeatures ==
    /\ fx_ret = <<>>
    /\ fx_ret' = <<extract_features(accel_data)>>
    /\ UNCHANGED <<accel_data, metVars, pipeVars, libVars>>

\* the synthetic dataset is SynthUsers users by SynthSessions rows for each of
\* the seven activities of create_synthetic_data
SynthActivities ==
    << "Sitting", "Standing", "SlowWalk", "Walking", "Jogging", "Upstairs", "Downstairs" >>

\* create_synthetic_data: the rows, activity by activity, user by user
SyntheticFrame ==
    [i \in 1..(Len(SynthActivities) * SynthUsers * SynthSessions) |->
        [user |-> (((i - 1) \div SynthSessions) % SynthUsers) + 1,
         activity |-> SynthActivities[((i - 1) \div (SynthUsers * SynthSessions)) + 1],
         acc |-> <<(i % 3) * Resolution, 0, Resolution>>]]

\* load_and_process_data: the WISDM file is read if there is one, the synthetic
\* dataset is created (and announced) if not; the two label columns are added
LoadAndProcess ==
    /\ pc = "load"
    /\ df' = IF raw_file = <<>> THEN SyntheticFrame ELSE raw_file[1]
    /\ source' = IF raw_file = <<>> THEN "synthetic" ELSE "wisdm"
    /\ log' = Append(log, IF raw_file = <<>>
                          THEN "Creating synthetic dataset for quick testing..."
                          ELSE "Loading data from file")
    /\ met_value' = [i \in 1..Len(df') |-> map_activity(df'[i].activity)]
    /\ met_class' = [i \in 1..Len(df') |-> get_met_class(map_activity(df'[i].activity))]
    /\ pc' = "loaded"
    /\ UNCHANGED <<window_size, todo, features, labels, windows, processed,
                   error, returned, all_features, zip_file, raw_file, dl_outcome,
                   metVars, fxVars, libVars>>

\* create_features_from_dataframe is entered: its lists are empty
BeginCreateFeatures ==
    /\ \/ pc = "loaded"
       \/ pc = "returned" /\ Len(returned) < MaxCalls
    /\ features' = initial_list(features)
    /\ labels' = initial_list(labels)
    /\ windows' = <<>>
    /\ processed' = <<>>
    /\ todo' = group_order(df)
    /\ pc' = "groups"
    /\ UNCHANGED <<df, met_value, met_class, window_size, error, returned,
                   all_features, dlVars, metVars, fxVars, libVars>>

\* the body of the inner loop for one (user, activity) group: all its windows
ProcessGroup ==
    /\ pc = "groups"
    /\ todo # <<>>
    /\ LET user     == Head(todo)[1]
           activity == Head(todo)[2]
           group    == activity_data(df, user, activity)
           raised   == range_raises(Len(group), window_size, window_size \div 2)
           starts   == IF raised THEN <<>> ELSE window_starts(group, window_size)
           outcome  == [k \in 1..Len(starts) |->
                           extract_features(window_accel(df, group, starts[k], window_size))]
           failed   == \E k \in 1..Len(starts) : outcome[k].status # "ok"
       IN  IF raised \/ failed
           THEN /\ pc' = "error"
                /\ error' = "ValueError"
                /\ UNCHANGED <<todo, features, labels, windows, processed>>
           ELSE /\ features' = features \o [k \in 1..Len(starts) |-> outcome[k].features]
                /\ labels' = labels \o
                       [k \in 1..Len(starts) |->
                           window_label(met_class,
                               iloc_slice(group, starts[k], starts[k] + window_size))]
                /\ windows' = windows \o
                       [k \in 1..Len(starts) |->
                           [user |-> user, activity |-> activity, start |-> starts[k],
                            rows |-> iloc_slice(group, starts[k], starts[k] + window_size)]]
                /\ processed' = Append(processed,
                       [user |-> user, activity |-> activity, len |-> Len(group),
                        nwin |-> Len(starts)])
                /\ todo' = Tail(todo)
                /\ UNCHANGED <<pc, error>>
    /\ UNCHANGED <<df, met_value, met_class, window_size, returned, all_features,
                   dlVars, metVars, fxVars, libVars>>

\* return np.array(features), np.array(labels)
ReturnFeatures ==
    /\ pc = "groups"
    /\ todo = <<>>
    /\ returned' = Append(returned,
           [features |-> features, labels |-> labels, windows |-> windows,
            input |-> <<df, met_class, window_size>>])
    /\ pc' = "returned"
    /\ UNCHANGED <<df, met_value, met_class, window_size, todo, features, labels,
                   windows, processed, error, all_features, dlVars, metVars, fxVars, libVars>>

\* the names of the activities in the order sorted() gives them
ActivityOrder ==
    << "Biking", "Downstairs", "Jogging", "Running", "Sitting", "SlowWalk",
       "Standing", "Upstairs", "Walking" >>

\* df.groupby(['user', 'activity']): the keys of the non-empty groups, sorted
groupby_keys(d) ==
    LET users == SortAsc(Unique([i \in 1..Len(d) |-> d[i].user]))
    IN  Flatten([n \in 1..Len(users) |->
            LET present == SelectSeq(ActivityOrder,
                               LAMBDA a : activity_data(d, users[n], a) # <<>>)
            IN  [m \in 1..Len(present) |-> <<users[n], present[m]>>]])

\* extract_features_for_window: one feature_row per window start (of its columns
\* the three taken from the window's first row; the statistics are left out),
\* with the window's start and rows
extract_features_for_window(d, classes, group, size) ==
    LET starts == py_range(Len(group) - size + 1, size \div 2)
    IN  [k \in 1..Len(starts) |->
            LET rows == iloc_slice(group, starts[k], starts[k] + size)
            IN  [user |-> d[rows[1]].user, activity |-> d[rows[1]].activity,
                 met_class |-> classes[rows[1]],
                 start |-> starts[k], rows |-> rows]]

\* comprehensive_report.main: the feature rows of every group of at least
\* window_size rows, for one window size
ReportExtractFeatures ==
    /\ pc = "loaded"
    /\ LET keys   == groupby_keys(df)
           group(k) == activity_data(df, keys[k][1], keys[k][2])
           longs  == SelectSeq([k \in 1..Len(keys) |-> k],
                               LAMBDA k : Len(group(k)) >= window_size)
           raised == \E n \in 1..Len(longs) :
                         range_raises(Len(group(longs[n])), window_size, window_size \div 2)
       IN  IF raised
           THEN /\ pc' = "error"
                /\ error' = "ValueError"
                /\ UNCHANGED all_features
           ELSE /\ all_features' = Flatten([n \in 1..Len(longs) |->
                       extract_features_for_window(df, met_class, group(longs[n]),
                                                   window_size)])
                /\ pc' = "reported"
                /\ UNCHANGED error
    /\ UNCHANGED <<df, met_value, met_class, window_size, todo, features, labels,
                   windows, processed, returned, dlVars, metVars, fxVars, libVars>>

\* no call on the wrapper yet
NoCall == [op |-> "", arg |-> None, outcome |-> "", result |-> None,
           before |-> METPredictor_init]

\* predictor = METPredictor()
Construct ==
    /\ self' = METPredictor_init
    /\ completed' = FALSE
    /\ last_call' = [op |-> "__init__", arg |-> None, outcome |-> "ok",
                     result |-> None, before |-> self]
    /\ UNCHANGED <<files, saved, data_pool, voteVars, metVars, fxVars, pipeVars>>

\* predictor.train(X, y, feature_names) on one of the training sets at hand
Train ==
    /\ \E d \in data_pool :
         LET r == train(self, d)
         IN  /\ self' = r.self
             /\ completed' = (completed \/ r.outcome = "ok")
             /\ last_call' = [op |-> "train", arg |-> d, outcome |-> r.outcome,
                              result |-> None, before |-> self]
    /\ UNCHANGED <<files, saved, data_pool, voteVars, metVars, fxVars, pipeVars>>

\* the lengths and the vectors predict is called with
VectorLens == {FeatureCount - 1, FeatureCount, FeatureCount + 1}
Vectors == {Vec(n, v) : n \in VectorLens, v \in 0..MaxFeature}

\* predictor.predict(features)
Predict ==
    /\ \E x \in Vectors :
         LET r == predict(self, x)
         IN  /\ self' = r.self
             /\ last_call' = [op |-> "predict", arg |-> x, outcome |-> r.outcome,
                              result |-> r.result, before |-> self]
    /\ UNCHANGED <<files, completed, saved, data_pool, voteVars, metVars, fxVars,
                   pipeVars>>

\* predictor.save_model(model_dir)
SaveModel ==
    /\ LET r == save_model(self, files)
       IN  /\ files' = r.files
           /\ saved' = IF r.outcome = "ok" THEN Some(self) ELSE None
           /\ last_call' = [op |-> "save_model", arg |-> files, outcome |-> r.outcome,
                            result |-> None, before |-> self]
    /\ UNCHANGED <<self, completed, data_pool, voteVars, metVars, fxVars, pipeVars>>

\* predictor.load_model(model_dir)
LoadModel ==
    /\ LET r == load_model(self, files)
       IN  /\ self' = r.self
           /\ completed' = (completed \/ r.outcome = "ok")
           /\ last_call' = [op |-> "load_model", arg |-> None, outcome |-> r.outcome,
                            result |-> None, before |-> self]
    /\ UNCHANGED <<files, saved, data_pool, voteVars, metVars, fxVars, pipeVars>>

\* the environment removes one file of the model directory
DeleteFile ==
    /\ \E f \in DOMAIN files :
         /\ files[f] # None
         /\ files' = [files EXCEPT ![f] = None]
         /\ last_call' = [op |-> "unlink", arg |-> f, outcome |-> "ok",
                          result |-> None, before |-> self]
    /\ saved' = None
    /\ UNCHANGED <<self, completed, data_pool, voteVars, metVars, fxVars,
                   pipeVars>>

-----------------------------------------------------------------------------
(* Stability layer: majority vote over the last VoteWindow predictions *)

\* how often class c occurs in the kept predictions
occurrences(h, c) == Cardinality({i \in 1..Len(h) : h[i] = c})

\* no vote: the latest prediction is emitted as it is
majority_latest(h) == h[Len(h)]

\* the majority class of the kept predictions, scanned from the most recent
\* to the oldest: an older class wins only with strictly more occurrences
RECURSIVE majority_from(_, _, _)
majority_from(h, i, best) ==
    IF i = 0 THEN best
    ELSE majority_from(h, i - 1,
                       IF occurrences(h, h[i]) > occurrences(h, best) THEN h[i] ELSE best)

majority(h) == majority_from(h, Len(h) - 1, h[Len(h)])

\* the last n entries of a sequence
keep_last(h, n) == SubSeq(h, Max(1, Len(h) - n + 1), Len(h))

\* the next prediction arrives: it is kept, the oldest kept one is dropped
\* beyond VoteWindow, and the majority of the kept ones is emitted
Vote ==
    /\ Len(vote_out) < Len(vote_in)
    /\ LET kept == keep_last(Append(vote_hist, vote_in[Len(vote_out) + 1]), VoteWindow)
       IN  /\ vote_hist' = kept
           /\ vote_out' = Append(vote_out, majority(kept))
    /\ UNCHANGED <<vote_in, wrapVars, metVars, fxVars, pipeVars>>

-----------------------------------------------------------------------------
(* Specifications *)

WrapIdle ==
    /\ self = METPredictor_init /\ files = NoFiles /\ last_call = NoCall
    /\ completed = FALSE /\ saved = None /\ data_pool = {}
VoteIdle == vote_in = <<>> /\ vote_hist = <<>> /\ vote_out = <<>>
LibIdle  == WrapIdle /\ VoteIdle

MetIdle  == met_arg = NaN /\ met_ret = <<>> /\ met_args = <<>>
FxIdle   == accel_data = <<>> /\ fx_ret = <<>>
PipeStart ==
    /\ met_value = <<>> /\ met_class = <<>>
    /\ todo = <<>> /\ features = <<>> /\ labels = <<>>
    /\ windows = <<>> /\ processed = <<>>
    /\ error = "" /\ returned = <<>>
    /\ all_features = <<>>
    /\ df = <<>> /\ log = <<>> /\ source = "none" /\ dl_outcome = "none"
PipeIdle ==
    /\ pc = "idle" /\ window_size = 1
    /\ zip_file = "absent" /\ raw_file = <<>>
    /\ PipeStart

SeqsUpTo(S, n) == UNION {[1..k -> S] : k \in 0..n}

\* the MET values get_met_class is tried on
MetValues == {Num(v) : v \in (0 - MaxMetTenths)..MaxMetTenths} \cup {NaN}

InitMet ==
    /\ met_arg \in MetValues
    /\ met_ret = <<>>
    /\ met_args = <<>>
    /\ FxIdle /\ PipeIdle /\ LibIdle

NextMet == CallGetMetClass

\* get_met_class on its own
SpecMet == InitMet /\ [][NextMet]_vars

\* the samples a window is built from
Samples == {<<x * Resolution, y * Resolution, z * Resolution>> :
                x \in {-1, 0, 1}, y \in {0, 1}, z \in {0, 2}}

InitFx ==
    /\ accel_data \in SeqsUpTo(Samples, MaxWin)
    /\ fx_ret = <<>>
    /\ MetIdle /\ PipeIdle /\ LibIdle

NextFx == CallExtractFeatures

\* extract_features on its own
SpecFx == InitFx /\ [][NextFx]_vars

\* the (user, activity) tags a dataframe of the pipeline is built from;
\* "Biking" is no key of activity_met_mapping
Tags == [user : {1, 2}, activity : {"Walking", "Sitting", "Biking"}]

\* the sample recorded at position i
SampleAt(i) == <<(i % 3) * Resolution, 0, Resolution>>

\* the dataframe with the given tags, row by row
Frame(tags) ==
    [i \in 1..Len(tags) |->
        [user |-> tags[i].user, activity |-> tags[i].activity, acc |-> SampleAt(i)]]

\* the run starts at load_and_process_data, with a WISDM file of any rows
\* under data/raw or with none
Init ==
    /\ pc = "load"
    /\ zip_file = "absent"
    /\ \/ raw_file = <<>>
       \/ \E tags \in SeqsUpTo(Tags, MaxRows) : raw_file = <<Frame(tags)>>
    /\ window_size \in 1..MaxWindow
    /\ PipeStart
    /\ MetIdle /\ FxIdle /\ LibIdle

Next ==
    \/ LoadAndProcess
    \/ BeginCreateFeatures
    \/ ProcessGroup
    \/ ReturnFeatures
    \/ ReportExtractFeatures

\* the training pipeline on any dataframe
Spec == Init /\ [][Next]_vars

\* one (user, activity) group of the given length
OneGroup(len) == Frame([i \in 1..len |-> [user |-> 1, activity |-> "Walking"]])

InitSeg ==
    /\ pc = "load"
    /\ zip_file = "absent"
    /\ \E len \in 0..MaxGroupLen : raw_file = <<OneGroup(len)>>
    /\ window_size \in 1..MaxGroupWindow
    /\ PipeStart
    /\ MetIdle /\ FxIdle /\ LibIdle

\* the training pipeline on a dataframe that is one group
SpecSeg == InitSeg /\ [][Next]_vars

\* a WISDM file of one user and one of the activities of the mapping
InitLabels ==
    /\ pc = "load"
    /\ zip_file = "absent"
    /\ \E a \in KnownActivities, len \in 1..MaxRows :
         raw_file = <<Frame([i \in 1..len |-> [user |-> 1, activity |-> a]])>>
    /\ window_size \in 1..MaxWindow
    /\ PipeStart
    /\ MetIdle /\ FxIdle /\ LibIdle

\* the training pipeline on the rows of one known activity
SpecLabels == InitLabels /\ [][Next]_vars

\* the WISDM file the downloaded archive may hold: none, or one of a few rows
ArchiveFiles == {<<>>, <<OneGroup(MaxRows)>>}

\* main without the try / except: the exception ends the run
after_download_failure_uncaught(lg, exc) == [pc |-> "aborted", log |-> lg]

\* main, except Exception as e: the failure is printed and the run goes on
after_download_failure(lg, exc) ==
    [pc |-> "load",
     log |-> lg \o << "Dataset download failed: " \o exc,
                     "Using synthetic data for demonstration" >>]

\* main: try: processor.download_wisdm_dataset() except Exception: print.
\* `net` is what requests.get meets; `archive` is the WISDM file of the archive
\* (<<>> if it holds none)
Download ==
    /\ pc = "download"
    /\ \E net \in {"archive", "garbage", "unreachable"}, archive \in ArchiveFiles :
         LET fetched == zip_file = "absent" /\ net # "unreachable"
             zip     == IF fetched THEN (IF net = "archive" THEN "good" ELSE "bad")
                        ELSE zip_file
             exc     == IF zip = "absent" THEN "ConnectionError"
                        ELSE IF zip = "bad" THEN "BadZipFile"
                        ELSE ""
             printed == IF fetched
                        THEN log \o <<"Downloading WISDM dataset...", "Download complete">>
                        ELSE IF zip_file = "absent"
                        THEN Append(log, "Downloading WISDM dataset...")
                        ELSE log
         IN  /\ zip_file' = zip
             /\ IF exc = ""
                THEN /\ raw_file' = IF archive = <<>> THEN raw_file ELSE archive
                     /\ dl_outcome' = "ok"
                     /\ log' = printed
                     /\ pc' = "load"
                ELSE /\ raw_file' = raw_file
                     /\ dl_outcome' = "failed"
                     /\ log' = after_download_failure(printed, exc).log
                     /\ pc' = after_download_failure(printed, exc).pc
    /\ UNCHANGED <<df, met_value, met_class, window_size, todo, features, labels,
                   windows, processed, error, returned, all_features, source,
                   metVars, fxVars, libVars>>

\* the run starts at the download, with or without an archive and a WISDM
\* file left by an earlier run
InitDl ==
    /\ pc = "download"
    /\ zip_file \in {"absent", "good", "bad"}
    /\ raw_file \in ArchiveFiles
    /\ window_size \in 1..MaxWindow
    /\ PipeStart
    /\ MetIdle /\ FxIdle /\ LibIdle

NextDl ==
    \/ Download
    \/ Next

\* the training pipeline from the download on
SpecDl == InitDl /\ [][NextDl]_vars

\* the probability vector that gives every vote to entry i of k
OneHot(k, i) == [j \in 1..k |-> IF j = i THEN ProbUnits ELSE 0]

\* the widths of the training sets
TrainWidths == {FeatureCount - 1, FeatureCount}

\* the rows per class of the training sets: every class well represented;
\* the classes of the WISDM activities (no class 1); class 1 with a single row
AllFour  == [c \in MetClassIds |-> RowsPerClass]
NoLight  == [c \in MetClassIds |-> IF c = 1 THEN 0 ELSE RowsPerClass]
OneLight == [c \in MetClassIds |-> IF c = 1 THEN 1 ELSE RowsPerClass]

\* a training set, by what train makes of it: its width and feature names,
\* the rows per class, the mean of the features and the votes of the trees
\* fitted on it
Datasets ==
    UNION {{[n_features |-> n, feature_names |-> SubSeq(get_feature_names, 1, n),
             counts |-> c, mean |-> m, left |-> l, right |-> r] :
                n \in TrainWidths, m \in 0..MaxFeature,
                l \in Dist(Len(classes_of(c))), r \in Dist(Len(classes_of(c)))} :
           c \in {AllFour, NoLight, OneLight}}

\* three training sets of extract_features vectors; the third has a single
\* row of class 1
SmallDatasets ==
    {[n_features |-> FeatureCount, feature_names |-> get_feature_names,
      counts |-> AllFour, mean |-> 0,
      left |-> OneHot(4, 1), right |-> OneHot(4, 4)],
     [n_features |-> FeatureCount, feature_names |-> get_feature_names,
      counts |-> NoLight, mean |-> MaxFeature,
      left |-> OneHot(3, 2), right |-> OneHot(3, 3)],
     [n_features |-> FeatureCount, feature_names |-> get_feature_names,
      counts |-> OneLight, mean |-> 0,
      left |-> OneHot(4, 2), right |-> OneHot(4, 3)]}

WrapStart ==
    /\ self = METPredictor_init /\ files = NoFiles /\ last_call = NoCall
    /\ completed = FALSE /\ saved = None

\* a fresh wrapper, an empty model directory, three training sets at hand
InitWrap ==
    /\ WrapStart
    /\ data_pool = SmallDatasets
    /\ VoteIdle /\ MetIdle /\ FxIdle /\ PipeIdle

NextWrap ==
    \/ Construct
    \/ Train
    \/ Predict
    \/ SaveModel
    \/ LoadModel
    \/ DeleteFile

\* the wrapper trained, saved and loaded in any order
SpecWrap == InitWrap /\ [][NextWrap]_vars

\* a fresh wrapper and one training set of any width and classes
InitPredict ==
    /\ WrapStart
    /\ \E d \in Datasets : data_pool = {d}
    /\ VoteIdle /\ MetIdle /\ FxIdle /\ PipeIdle

NextPredict ==
    \/ Construct
    \/ Train
    \/ Predict

\* the wrapper trained on one training set and asked for predictions
SpecPredict == InitPredict /\ [][NextPredict]_vars

\* the stability layer fed any sequence of up to MaxPreds predicted classes
InitVote ==
    /\ vote_in \in SeqsUpTo(MetClassIds, MaxPreds)
    /\ vote_hist = <<>>
    /\ vote_out = <<>>
    /\ WrapIdle /\ MetIdle /\ FxIdle /\ PipeIdle

NextVote == Vote

SpecVote == InitVote /\ [][NextVote]_vars

\* the pairs of MET values get_met_class is called on in turn
InitMono ==
    /\ met_arg = NaN
    /\ met_ret = <<>>
    /\ met_args \in {<<Num(u), Num(v)>> :
                        u, v \in (0 - MaxMonoTenths)..MaxMonoTenths}
    /\ FxIdle /\ PipeIdle /\ LibIdle

NextMono == CallGetMetClassNext

\* get_met_class called on two values
SpecMono == InitMono /\ [][NextMono]_vars

-----------------------------------------------------------------------------
(* Label mapper properties (SpecMet, Spec) *)

\* C1: get_met_class(v) is 0 for v < 1.5, 1 for 1.5 <= v < 3.0, 2 for
\* 3.0 <= v < 6.0 and 3 for v >= 6.0; the breakpoints 1.5, 3.0 and 6.0 map to
\* the class that starts there (1, 2 and 3).
C1_MetClassBreakpoints ==
    \A i \in 1..Len(met_ret) :
        ~met_arg.nan =>
            /\ met_arg.val < 15 => met_ret[i] = 0
            /\ 15 <= met_arg.val /\ met_arg.val < 30 => met_ret[i] = 1
            /\ 30 <= met_arg.val /\ met_arg.val < 60 => met_ret[i] = 2
            /\ 60 <= met_arg.val => met_ret[i] = 3

\* C1 witness: get_met_class was called on the breakpoint 3.0 and returned 2
C1_Witness == met_arg = Num(30) /\ met_ret = <<2>>

\* C2: a row whose activity is no key of activity_met_mapping is never given
\* one of the classes 0..3 by the labeling, and no window of such a group
\* reaches the feature matrix with a label.
C2_UnmappedNeverLabelled ==
    /\ \A i \in 1..Len(met_class) :
           df[i].activity \notin DOMAIN activity_met_mapping
               => met_class[i] \notin 0..3
    /\ \A k \in 1..Len(windows) :
           windows[k].activity \in DOMAIN activity_met_mapping

-----------------------------------------------------------------------------
(* Segmenter properties (Spec, SpecSeg) *)

\* max(0, (L - W) // S + 1) with S = W // 2, for W >= 2
ExpectedWindows(len, size) == Max(0, (len - size) \div (size \div 2) + 1)

\* no window of the list extends past the end of its group
Fit(ws) ==
    \A k \in 1..Len(ws) :
        /\ ws[k].start + window_size
               <= Len(activity_data(df, ws[k].user, ws[k].activity))
        /\ Len(ws[k].rows) = window_size

WindowsFit == Fit(windows) /\ Fit(all_features)

\* C3 as stated: for every group length L >= 0 and every window size W >= 1
\* the segmenter ends without an error having emitted max(0, (L - W)//S + 1)
\* windows, none past the end of the group.
C3_WindowCountAnySize ==
    /\ pc # "error"
    /\ (pc = "returned" /\ window_size \div 2 > 0)
           => /\ Len(features) = ExpectedWindows(Len(df), window_size)
              /\ WindowsFit
    /\ (pc = "reported" /\ window_size \div 2 > 0)
           => /\ Len(all_features) = ExpectedWindows(Len(df), window_size)
              /\ WindowsFit

\* C3 amended: for every group length L >= 0 and every window size W >= 2 the
\* segmenter emits exactly max(0, (L - W)//S + 1) windows for the group and no
\* window extends past the end of the group.
C3_WindowCount ==
    window_size >= 2 =>
        /\ pc # "error"
        /\ \A k \in 1..Len(processed) :
               processed[k].nwin = ExpectedWindows(processed[k].len, window_size)
        /\ pc = "returned" => Len(features) = ExpectedWindows(Len(df), window_size)
        /\ pc = "reported" => Len(all_features) = ExpectedWindows(Len(df), window_size)
        /\ WindowsFit

\* C3 witness: a group of 9 samples segmented with window size 5 gave 3 windows
C3_Witness ==
    /\ pc = "returned" /\ Len(df) = 9 /\ window_size = 5
    /\ Len(features) = 3

\* C4: every emitted window holds rows of one user and one activity only,
\* however users and activities are interleaved in the dataframe.
C4_WindowInOneGroup ==
    \A ws \in {windows, all_features} :
        \A k \in 1..Len(ws) :
            \A a, b \in 1..Len(ws[k].rows) :
                /\ df[ws[k].rows[a]].user = df[ws[k].rows[b]].user
                /\ df[ws[k].rows[a]].activity = df[ws[k].rows[b]].activity

\* C4 witness: a window was emitted whose rows are not adjacent in the
\* dataframe (rows of another group lie between them)
C4_Witness ==
    \E k \in 1..Len(windows) :
        /\ Len(windows[k].rows) >= 2
        /\ windows[k].rows[2] > windows[k].rows[1] + 1

\* C5: a group with fewer samples than window_size yields no window and no
\* error, and the groups after it are still processed.
C5_ShortGroupsYieldNothing ==
    /\ \A k \in 1..Len(processed) :
           processed[k].len < window_size => processed[k].nwin = 0
    /\ (pc = "error" /\ todo # <<>>) =>
           Len(activity_data(df, Head(todo)[1], Head(todo)[2])) >= window_size
    /\ pc = "returned" =>
           [k \in 1..Len(processed) |-> <<processed[k].user, processed[k].activity>>]
               = group_order(df)

\* C5 witness: a group shorter than the window was passed over and a later
\* group still produced a window
C5_Witness ==
    /\ pc = "returned"
    /\ \E j, k \in 1..Len(processed) :
           /\ j < k
           /\ processed[j].len < window_size
           /\ processed[k].nwin > 0

\* C6: two calls on the same dataframe with the same window_size return the
\* same window starts and the same labels, and the dataframe each call saw
\* is the same.
C6_SegmentationRepeatable ==
    \A i, j \in 1..Len(returned) :
        /\ returned[i].windows = returned[j].windows
        /\ returned[i].labels = returned[j].labels
        /\ returned[i].input = returned[j].input

\* C6 witness: the segmenter has returned twice, with at least two windows
C6_Witness ==
    /\ Len(returned) = 2
    /\ Len(returned[2].windows) >= 2

\* C23: the windows emitted for a group start at 0, S, 2S, ... with
\* S = window_size // 2, each ends within the group (start + window_size <=
\* length) and holds exactly window_size consecutive rows of the group; no
\* trailing shorter window is emitted.
C23_WindowStartsAndFit ==
    \A j \in 1..Len(windows) :
        LET w     == windows[j]
            group == activity_data(df, w.user, w.activity)
            k     == Cardinality({i \in 1..(j - 1) :
                        windows[i].user = w.user /\ windows[i].activity = w.activity})
        IN  /\ w.start = k * (window_size \div 2)
            /\ w.start + window_size <= Len(group)
            /\ w.rows = SubSeq(group, w.start + 1, w.start + window_size)

\* C23 witness: a group of 9 samples and window size 4 gave the windows that
\* start at 0, 2 and 4, and none for the 3 samples left from 6 on
C23_Witness ==
    /\ pc = "returned" /\ Len(df) = 9 /\ window_size = 4
    /\ [j \in 1..Len(windows) |-> windows[j].start] = <<0, 2, 4>>

\* C24: the label emitted with a window is the met_class of the window's
\* first sample, and the i-th label goes with the i-th feature vector: both
\* lists have one entry per window, in the order of the windows.
C24_LabelOfFirstSample ==
    LET paired(fs, ls, ws) ==
            /\ Len(fs) = Len(ws)
            /\ Len(ls) = Len(ws)
            /\ \A i \in 1..Len(ws) :
                  /\ ls[i] = met_class[ws[i].rows[1]]
                  /\ fs[i] = extract_features(
                                 [n \in 1..Len(ws[i].rows) |-> df[ws[i].rows[n]].acc]).features
    IN  /\ paired(features, labels, windows)
        /\ \A r \in 1..Len(returned) :
              paired(returned[r].features, returned[r].labels, returned[r].windows)

\* C24 witness: two windows were returned with different labels, neither the
\* class of the first row of the dataframe
C24_Witness ==
    /\ pc = "returned"
    /\ \E i, j \in 1..Len(labels) :
          /\ labels[i] # labels[j]
          /\ labels[i] # met_class[1]
          /\ labels[j] # met_class[1]

\* the class written next to each activity in the mapping table
StatedClass ==
    [a \in KnownActivities |->
        CASE a \in {"Sitting"} -> 0
          [] a \in {"Standing", "SlowWalk"} -> 1
          [] a \in {"Walking", "Upstairs", "Downstairs"} -> 2
          [] a \in {"Jogging", "Running"} -> 3]

\* C26: get_met_class of the mapped MET value gives each known activity the
\* class stated next to it: Walking 2, Jogging 3, Running 3, Upstairs 2,
\* Downstairs 2, Sitting 0, Standing 1, SlowWalk 1.
C26_StatedClasses ==
    \A i \in 1..Len(met_class) :
        df[i].activity \in KnownActivities => met_class[i] = StatedClass[df[i].activity]

-----------------------------------------------------------------------------
(* Feature extractor properties (SpecFx) *)

\* the statistic a feature name stands for
StatNamed(name, ad) ==
    LET x == Axis(ad, 1)
        y == Axis(ad, 2)
        z == Axis(ad, 3)
        m == magnitude_of(x, y, z)
    IN  CASE name = "mean_x" -> np_mean(x)
          [] name = "mean_y" -> np_mean(y)
          [] name = "mean_z" -> np_mean(z)
          [] name = "mean_magnitude" -> np_mean(m)
          [] name = "std_x" -> np_std(x)
          [] name = "std_y" -> np_std(y)
          [] name = "std_z" -> np_std(z)
          [] name = "std_magnitude" -> np_std(m)
          [] name = "min_magnitude" -> np_min(m)
          [] name = "max_magnitude" -> np_max(m)
          [] name = "rms_x" -> rms(x)
          [] name = "rms_y" -> rms(y)
          [] name = "rms_z" -> rms(z)
          [] name = "zero_crossings_x" -> Num(zero_crossings(x))
          [] name = "magnitude_p25" -> np_percentile(m, 25)
          [] name = "magnitude_p75" -> np_percentile(m, 75)

\* the 16 names of the feature contract, in order
ContractNames ==
    << "mean_x", "mean_y", "mean_z", "mean_magnitude", "std_x", "std_y", "std_z",
       "std_magnitude", "min_magnitude", "max_magnitude", "rms_x", "rms_y", "rms_z",
       "zero_crossings_x", "magnitude_p25", "magnitude_p75" >>

\* C7: for a window of length >= 1 extract_features returns 16 numbers and
\* get_feature_names 16 names, the names are those of the contract in its
\* order, and the value at each position is the statistic named there.
C7_FeatureOrder ==
    \A r \in 1..Len(fx_ret) :
        Len(accel_data) >= 1 =>
            /\ fx_ret[r].status = "ok"
            /\ Len(fx_ret[r].features) = 16
            /\ get_feature_names = ContractNames
            /\ \A i \in 1..16 :
                   /\ ~fx_ret[r].features[i].nan
                   /\ fx_ret[r].features[i] = StatNamed(get_feature_names[i], accel_data)

\* C7 witness: a window of three samples was extracted whose smallest and
\* largest magnitude differ and whose x, y and z means differ
C7_Witness ==
    /\ Len(accel_data) = 3
    /\ fx_ret # <<>>
    /\ fx_ret[1].status = "ok"
    /\ fx_ret[1].features[9] # fx_ret[1].features[10]
    /\ fx_ret[1].features[1] # fx_ret[1].features[2]
    /\ fx_ret[1].features[2] # fx_ret[1].features[3]

RECURSIVE SignChanges(_)
\* the number of places where two consecutive signs differ
SignChanges(s) ==
    IF Len(s) <= 1 THEN 0
    ELSE (IF s[1] # s[2] THEN 1 ELSE 0) + SignChanges(Tail(s))

\* the signs of x - mean(x), the exact zeros left out
NonZeroSigns(x) ==
    SelectSeq([i \in 1..Len(x) |-> np_sign(centered(x)[i])], LAMBDA v : v # 0)

\* C8: zero_crossings_x is the number of sign changes of x - mean(x) between
\* consecutive samples where samples that are exactly zero add no crossing:
\* signs (+, 0, +) count 0 and (+, 0, -) count 1.
C8_ZerosAddNoCrossing ==
    \A r \in 1..Len(fx_ret) :
        fx_ret[r].status = "ok" =>
            fx_ret[r].features[14] = Num(SignChanges(NonZeroSigns(Axis(accel_data, 1))))

\* C9: for a window of length 1 the four standard deviations and the
\* zero-crossing count are 0.
C9_SingleSampleWindow ==
    \A r \in 1..Len(fx_ret) :
        Len(accel_data) = 1 =>
            /\ fx_ret[r].status = "ok"
            /\ \A i \in {5, 6, 7, 8, 14} : fx_ret[r].features[i] = Num(0)

\* C9 witness: a window of one sample that is not the origin was extracted
C9_Witness ==
    /\ accel_data = << <<Resolution, Resolution, 2 * Resolution>> >>
    /\ fx_ret # <<>>
    /\ fx_ret[1].status = "ok"

\* C10: extract_features on a window of length 0 ends in an error and returns
\* no feature vector.
C10_EmptyWindowIsError ==
    \A r \in 1..Len(fx_ret) :
        accel_data = <<>> =>
            /\ fx_ret[r].status # "ok"
            /\ fx_ret[r].features = <<>>

\* C10 witness: extract_features was called on the empty window and raised
C10_Witness ==
    /\ accel_data = <<>>
    /\ fx_ret = << [status |-> "ValueError", features |-> <<>>] >>

-----------------------------------------------------------------------------
(* Classifier wrapper properties (SpecWrap, SpecPredict) *)

\* C11: predict on a wrapper on which neither train nor load_model has
\* completed fails with 'Model not trained or loaded', returns no prediction
\* and leaves the wrapper as it was.
C11_PredictBeforeTrainOrLoad ==
    (last_call.op = "predict" /\ ~completed) =>
        /\ last_call.outcome = "ValueError: Model not trained or loaded"
        /\ last_call.result = None
        /\ self = last_call.before

\* C12: predict leaves model, scaler, feature_names and met_classes as they
\* were, and predict on the same vector again returns what it returned.
C12_PredictChangesNothing ==
    last_call.op = "predict" =>
        /\ self = last_call.before
        /\ predict(self, last_call.arg).outcome = last_call.outcome
        /\ predict(self, last_call.arg).result = last_call.result

\* C12 witness: predict returned a prediction
C12_Witness ==
    /\ last_call.op = "predict"
    /\ last_call.outcome = "ok"
    /\ last_call.result # None

\* C13: every successful predict returns predicted_class in 0..3, class_name
\* = met_classes[predicted_class], exactly 4 probabilities that sum to 1, and
\* confidence = the largest of them, whatever classes the training labels held.
C13_PredictionShape ==
    (last_call.op = "predict" /\ last_call.outcome = "ok") =>
        LET r == last_call.result[1]
        IN  /\ r.predicted_class \in MetClassIds
            /\ r.class_name = self.met_classes[r.predicted_class]
            /\ Len(r.probabilities) = 4
            /\ SumSeq(r.probabilities) = ProbUnits
            /\ r.confidence = SeqMax(r.probabilities)

\* C14 as stated: predict on a vector whose length is not 16 fails and
\* returns no prediction.
C14_LengthNot16Fails ==
    (last_call.op = "predict" /\ Len(last_call.arg) # FeatureCount) =>
        /\ last_call.outcome # "ok"
        /\ last_call.result = None

\* C14: predict on a vector whose length is not the number of features the
\* wrapper's scaler and model were fitted on fails with the ValueError of
\* scikit-learn and returns no prediction; after training on vectors of
\* extract_features that number is 16.
C14_LengthNotFittedFails ==
    last_call.op = "predict" =>
        LET w == last_call.before
        IN  /\ (w.model # None /\ w.scaler # None
                    /\ Len(last_call.arg) # w.scaler[1].n_features_in) =>
                  /\ last_call.outcome = "ValueError: n_features"
                  /\ last_call.result = None
            /\ (w.feature_names = Some(get_feature_names)
                    /\ Len(last_call.arg) # FeatureCount) =>
                  /\ last_call.outcome # "ok"
                  /\ last_call.result = None

\* C14 witness: a wrapper trained on 16 features refused a longer vector
C14_Witness ==
    /\ last_call.op = "predict"
    /\ last_call.before.scaler # None
    /\ last_call.before.scaler[1].n_features_in = FeatureCount
    /\ Len(last_call.arg) = FeatureCount + 1
    /\ last_call.outcome = "ValueError: n_features"

\* C15: load_model of what save_model wrote gives a wrapper with the same
\* model, scaler, feature_names and met_classes (keys 0..3), and the same
\* prediction for every vector.
C15_SaveLoadRoundTrip ==
    (last_call.op = "load_model" /\ last_call.outcome = "ok" /\ saved # None) =>
        /\ self = saved[1]
        /\ DOMAIN self.met_classes = MetClassIds
        /\ \A x \in Vectors : predict(self, x).result = predict(saved[1], x).result

\* C15 witness: a fresh wrapper loaded what a trained wrapper saved, and predicts
C15_Witness ==
    /\ last_call.op = "load_model"
    /\ last_call.outcome = "ok"
    /\ last_call.before = METPredictor_init
    /\ saved # None
    /\ saved[1].model # None
    /\ predict(self, Vec(FeatureCount, 0)).outcome = "ok"

\* C16: load_model on a directory that lacks one of the three files ends in
\* an error and leaves model, scaler, feature_names and met_classes as they
\* were before the call.
C16_FailedLoadChangesNothing ==
    last_call.op = "load_model" =>
        /\ (\E f \in DOMAIN files : files[f] = None) => last_call.outcome # "ok"
        /\ last_call.outcome # "ok" => self = last_call.before

\* C17: the metadata save_model writes holds the window size and the
\* sampling rate, with the feature names and the class mapping.
C17_ArtifactRecordsWindowAndRate ==
    files.model_metadata_json # None =>
        {"window_size", "sampling_rate", "feature_names", "met_classes"}
            \subseteq DOMAIN files.model_metadata_json[1]

\* model, scaler and feature_names are those of a new wrapper, or those one
\* train on one of the training sets at hand gives
same_run(w) ==
    \/ w.model = None /\ w.scaler = None /\ w.feature_names = None
    \/ \E d \in data_pool :
          /\ w.model = Some(fit_forest(d))
          /\ w.scaler = Some(fit_scaler(d))
          /\ w.feature_names = Some(d.feature_names)

\* C21: after any sequence of calls, failed ones included, model, scaler and
\* feature_names of the wrapper come from one training run or one loaded
\* artifact, and no predict runs on a wrapper of which they do not.
C21_PartsFromOneRun ==
    /\ same_run(self)
    /\ (last_call.op = "predict" /\ last_call.outcome = "ok") => same_run(last_call.before)

\* C22: after save_model the directory holds all three files of the wrapper's
\* artifact if the call succeeded, and what it held before if the call failed.
C22_SaveAllOrNothing ==
    last_call.op = "save_model" =>
        IF last_call.outcome = "ok"
        THEN /\ files.met_model_pkl = Some(last_call.before.model)
             /\ files.scaler_pkl = Some(last_call.before.scaler)
             /\ files.model_metadata_json # None
             /\ files.model_metadata_json[1].feature_names
                    = last_call.before.feature_names[1]
        ELSE files = last_call.arg

\* a class of the labels has too few rows to stratify the split
too_few_to_stratify(counts) == \E c \in DOMAIN counts : counts[c] = 1

\* C25: train on labels with a class too small to stratify ends in an error,
\* and a train that ends in an error leaves model, scaler and feature_names
\* as they were.
C25_FailedTrainChangesNothing ==
    last_call.op = "train" =>
        /\ too_few_to_stratify(last_call.arg.counts) => last_call.outcome = "ValueError"
        /\ last_call.outcome # "ok" =>
              /\ self.model = last_call.before.model
              /\ self.scaler = last_call.before.scaler
              /\ self.feature_names = last_call.before.feature_names

\* C25 witness: a trained wrapper was given labels with a class of one row,
\* train raised, and the wrapper still predicts
C25_Witness ==
    /\ last_call.op = "train"
    /\ too_few_to_stratify(last_call.arg.counts)
    /\ last_call.outcome = "ValueError"
    /\ last_call.before.model # None
    /\ predict(self, Vec(FeatureCount, 0)).outcome = "ok"

-----------------------------------------------------------------------------
(* Stability layer properties (SpecVote) *)

\* C18: the stability layer keeps the last VoteWindow (3) predictions and
\* emits, for each new prediction, a class that occurs most often among the
\* kept ones, and of two such classes the one predicted more recently; the
\* input 0, 0, 3, 0, 0 gives the output 0, 0, 0, 0, 0.
C18_MajorityOfLastN ==
    /\ vote_hist = keep_last(SubSeq(vote_in, 1, Len(vote_out)), VoteWindow)
    /\ \A k \in 1..Len(vote_out) :
          LET kept    == keep_last(SubSeq(vote_in, 1, k), VoteWindow)
              n(c)    == Cardinality({i \in 1..Len(kept) : kept[i] = c})
              at(c)   == CHOOSE i \in 1..Len(kept) :
                            kept[i] = c /\ \A j \in (i + 1)..Len(kept) : kept[j] # c
              emitted == vote_out[k]
          IN  /\ n(emitted) > 0
              /\ \A c \in MetClassIds :
                    /\ n(c) <= n(emitted)
                    /\ (c # emitted /\ n(c) = n(emitted)) => at(c) < at(emitted)
    /\ (vote_in = <<0, 0, 3, 0, 0>> /\ Len(vote_out) = 5) => vote_out = <<0, 0, 0, 0, 0>>

\* C18 witness: the spike of 0, 0, 3, 0, 0 was voted down
C18_Witness ==
    /\ vote_in = <<0, 0, 3, 0, 0>>
    /\ vote_out = <<0, 0, 0, 0, 0>>
    /\ vote_hist = <<3, 0, 0>>

\* C19: when download_wisdm_dataset failed and no WISDM raw file is under
\* data/raw, the failure is printed, the run is not aborted, and the data the
\* pipeline goes on with is the synthetic dataset, announced as such.
C19_DownloadFailureFallsBack ==
    dl_outcome = "failed" =>
        /\ pc # "aborted"
        /\ \E i \in 1..Len(log) :
              log[i] \in {"Dataset download failed: " \o e :
                            e \in {"ConnectionError", "BadZipFile"}}
        /\ \E i \in 1..Len(log) : log[i] = "Using synthetic data for demonstration"
        /\ (raw_file = <<>> /\ pc \notin {"download", "load"}) =>
              /\ source = "synthetic"
              /\ df = SyntheticFrame
              /\ \E i \in 1..Len(log) :
                    log[i] = "Creating synthetic dataset for quick testing..."

\* C19 witness: the download failed with no raw file present and
\* create_features_from_dataframe returned windows of the synthetic dataset
C19_Witness ==
    /\ dl_outcome = "failed"
    /\ raw_file = <<>>
    /\ source = "synthetic"
    /\ pc = "returned"
    /\ features # <<>>

\* C20: get_met_class is non-decreasing in the MET value: of two calls, the
\* one on the lower value never returns the higher class.
C20_MetClassMonotone ==
    \A i, j \in 1..Len(met_ret) :
        (~met_args[i].nan /\ ~met_args[j].nan /\ met_args[i].val <= met_args[j].val)
            => met_ret[i] <= met_ret[j]

\* C20 witness: two calls, the second on a higher value and with a higher class
C20_Witness ==
    /\ Len(met_ret) = 2
    /\ met_args[1].val < met_args[2].val
    /\ met_ret[1] < met_ret[2]

=============================================================================
